---- MODULE Spec2Model ----
(***************************************************************************)
(* TipJar dApp: the TipJar ledger contract, the useWallet session hook,    *)
(* and the TipForm / WithdrawButton flows of the front end.                *)
(*                                                                         *)
(* The specifications share the variables:                                 *)
(*   SpecLedger   - the contract alone, called directly by any account;    *)
(*   SpecTip      - the TipForm component, its useWallet session, the      *)
(*                  wallet and the chain;                                  *)
(*   SpecWithdraw - the WithdrawButton component, its useWallet session,   *)
(*                  the wallet and the contract;                           *)
(*   SpecSession  - the ConnectWallet component, its useWallet session     *)
(*                  and the wallet's events;                               *)
(*   SpecNotify   - Home's notification, its timeout and the clock;        *)
(*   SpecBalance  - BalanceDisplay next to TipForm, each with its session; *)
(*   SpecFlows    - the tip and the withdrawal flow with every adapter     *)
(*                  call settling (weak fairness);                         *)
(*   SpecMount    - two components mounting and unmounting their sessions; *)
(*   SpecShared   - ConnectWallet, TipForm and WithdrawButton side by      *)
(*                  side, each with its session;                           *)
(*   SpecEvents   - one session following accountsChanged events, with     *)
(*                  every request of a check settling (weak fairness).     *)
(***************************************************************************)
EXTENDS Integers, Sequences, FiniteSets, TLC

(***************************************************************************)
(* Bounds of the model.                                                    *)
(***************************************************************************)
\* decimals of one ether in the model's smallest unit (18 on the real chain)
Decimals == 1
\* ether every user account holds at the start
InitEther == 1
\* calls of checkIfWalletIsConnected, and of connectWallet, in flight in one session
MaxInFlight == 1
\* invocations of handleSubmit (TipForm), and of handleWithdraw
\* (WithdrawButton), that may be in flight together
MaxAttempts == 2
\* the clock stops at MaxTime
MaxTime == 7
\* Notification: the delay of its setTimeout, in seconds
AutoClose == 5

WeiPerEther == 10 ^ Decimals
InitFunds == InitEther * WeiPerEther

(***************************************************************************)
(* Accounts of the chain.  "jar" is the deployed TipJar contract, "eoa" an *)
(* externally owned account that CONTRACT_ADDRESS may name instead.        *)
(***************************************************************************)
Users == {"u1", "u2"}
Jar == "jar"
Eoa == "eoa"
Accounts == Users \cup {Jar, Eoa}
Messages == {"", "gg"}
\* values attached to direct calls of the contract
TipValues == {0, WeiPerEther \div 2, WeiPerEther}

(***************************************************************************)
(* Call data of a transaction.  kind "empty" is '0x', "utf8" the bytes of  *)
(* a text (TipForm.tsx:46), "withdraw()" the selector 0x3ccfd60b           *)
(* (WithdrawButton.tsx:157), "tip(string)" an ABI-encoded call of tip.     *)
(* The UTF-8 bytes of a text never form the withdraw selector (0xcf 0xd6   *)
(* is not valid UTF-8) nor an ABI-encoded tip call for the texts used.     *)
(***************************************************************************)
EmptyData == [kind |-> "empty", text |-> ""]
Utf8Data(m) == [kind |-> "utf8", text |-> m]
WithdrawSelector == [kind |-> "withdraw()", text |-> ""]
TipCallData(m) == [kind |-> "tip(string)", text |-> m]

(***************************************************************************)
(* Decimal strings are sequences of characters, so that parsing and        *)
(* formatting are computed as JavaScript and ethers compute them.          *)
(***************************************************************************)
DigitChars == <<"0", "1", "2", "3", "4", "5", "6", "7", "8", "9">>
IsDigit(c) == \E d \in 1..10 : DigitChars[d] = c
DigitVal(c) == (CHOOSE d \in 1..10 : DigitChars[d] = c) - 1

\* length of the longest prefix of s made of digits
RECURSIVE DigitRun(_)
DigitRun(s) == IF s # <<>> /\ IsDigit(Head(s)) THEN 1 + DigitRun(Tail(s)) ELSE 0

Drop(s, n) == SubSeq(s, n + 1, Len(s))
Take(s, n) == SubSeq(s, 1, n)
AllZero(s) == \A i \in 1..Len(s) : s[i] = "0"

RECURSIVE ToNat(_)
ToNat(s) == IF s = <<>> THEN 0 ELSE 10 * ToNat(Take(s, Len(s) - 1)) + DigitVal(s[Len(s)])

RECURSIVE NatToChars(_)
NatToChars(n) == IF n < 10 THEN <<DigitChars[n + 1]>>
                 ELSE NatToChars(n \div 10) \o <<DigitChars[(n % 10) + 1]>>

RECURSIVE StripZeros(_)
StripZeros(s) == IF Len(s) > 1 /\ s[Len(s)] = "0" THEN StripZeros(Take(s, Len(s) - 1)) ELSE s

RECURSIVE PadLeft(_, _)
PadLeft(s, n) == IF Len(s) < n THEN PadLeft(<<"0">> \o s, n) ELSE s
RECURSIVE PadRight(_, _)
PadRight(s, n) == IF Len(s) < n THEN PadRight(s \o <<"0">>, n) ELSE s

\* JavaScript parseFloat: the longest numeric prefix, NaN when there is none.
\* sign is the sign of the number parsed (an exponent changes neither)
parseFloat(s) ==
  LET neg == s # <<>> /\ Head(s) = "-"
      body == IF s # <<>> /\ Head(s) \in {"-", "+"} THEN Tail(s) ELSE s
      n1 == DigitRun(body)
      rest == Drop(body, n1)
      n2 == IF rest # <<>> /\ Head(rest) = "." THEN DigitRun(Tail(rest)) ELSE 0
      digits == Take(body, n1) \o (IF n2 > 0 THEN SubSeq(rest, 2, n2 + 1) ELSE <<>>)
  IN  IF n1 + n2 = 0 THEN [nan |-> TRUE, sign |-> 0]
      ELSE [nan |-> FALSE, sign |-> IF AllZero(digits) THEN 0 ELSE IF neg THEN -1 ELSE 1]

\* x <= 0 for a parseFloat result: every comparison with NaN is false
LeqZero(x) == ~x.nan /\ x.sign <= 0

\* ethers parseEther: ^(-?)([0-9]*)\.?([0-9]*)$ with at least one digit and
\* no non-zero digit beyond the decimals; throws otherwise (ok = FALSE)
parseEther(s) ==
  LET neg == s # <<>> /\ Head(s) = "-"
      body == IF neg THEN Tail(s) ELSE s
      n1 == DigitRun(body)
      rest == Drop(body, n1)
      frac == IF rest # <<>> /\ Head(rest) = "." THEN Tail(rest) ELSE rest
      whole == Take(body, n1)
      matches == DigitRun(frac) = Len(frac) /\ Len(whole) + Len(frac) > 0
      fits == AllZero(Drop(PadRight(frac, Decimals), Decimals))
      mag == ToNat(whole) * WeiPerEther + ToNat(Take(PadRight(frac, Decimals), Decimals))
  IN  IF matches /\ fits THEN [ok |-> TRUE, value |-> IF neg THEN 0 - mag ELSE mag]
      ELSE [ok |-> FALSE, value |-> 0]

\* ethers formatEther: whole part, ".", decimals without trailing zeros
formatEther(n) ==
  NatToChars(n \div WeiPerEther) \o <<".">> \o
  StripZeros(PadLeft(NatToChars(n % WeiPerEther), Decimals))

(***************************************************************************)
(* Address strings.  The wallet reports addresses in lower case; a         *)
(* configured address may be written in mixed (checksum) case.  id is the  *)
(* account the string denotes.                                             *)
(***************************************************************************)
Address(id, form) == [id |-> id, form |-> form]
NullAddress == [id |-> "null", form |-> "null"]
toLowerCase(a) == [id |-> a.id, form |-> IF a = NullAddress THEN "null" ELSE "lower"]

\* the components of page.tsx that call useWallet
Hooks == {"ConnectWallet", "WithdrawButton", "TipForm", "BalanceDisplay"}

VARIABLES
  owner,            \* TipJar.owner
  chainBalance,     \* native balance of every account; TipJar's is address(this).balance
  lastCall,         \* the last transaction executed on the chain and its outcome
  contractAddress,  \* CONTRACT_ADDRESS of page.tsx: the account it names
  contractOwner,    \* CONTRACT_OWNER of page.tsx: an address string
  ethereum,         \* window.ethereum is present
  walletAccounts,   \* the accounts the wallet exposes to the page, active one first
  listeners,        \* hooks whose accountsChanged / chainChanged handlers are registered
  isClient,         \* useWallet: isClient, per hook
  walletState,      \* useWallet: walletState, per hook
  checks,           \* calls of checkIfWalletIsConnected in flight, per hook
  connects,         \* calls of connectWallet in flight (ConnectWallet component)
  connectError,     \* ConnectWallet: error
  amount,           \* TipForm: amount
  message,          \* TipForm: message
  isLoading,        \* TipForm: isLoading
  error,            \* TipForm: error
  attempts,         \* TipForm: invocations of handleSubmit in flight
  outcome,          \* TipForm: how the last invocation of handleSubmit ended
  notification,     \* page.tsx: notification
  timer,            \* Notification: the time its pending setTimeout fires at, 0 when none
  shownAt,          \* the time the notification on display was created at
  now,              \* the time, in seconds
  cleared,          \* the time the timeout that the last callback of Home cleared was set for, 0 when none
  withdrawLoading,  \* WithdrawButton: isLoading
  withdrawError,    \* WithdrawButton: error
  withdraws,        \* WithdrawButton: invocations of handleWithdraw in flight
  withdrawOutcome,  \* WithdrawButton: how the last invocation of handleWithdraw ended
  connectResult,    \* how the last call of connectWallet ended
  reconnect,        \* the walletState that the last click on disconnect discarded
  contractBalance,  \* BalanceDisplay: contractBalance
  balanceLoading,   \* BalanceDisplay: isLoading
  fetches,          \* BalanceDisplay: calls of fetchContractBalance in flight
  seenDeps,         \* BalanceDisplay: the dependencies its effect last ran with
  eventState        \* SpecEvents: "pending" from an accountsChanged with accounts until the
                    \* session holds the active account, "failed" once a check failed, else "idle"

ledgerVars == <<owner, chainBalance, lastCall>>
configVars == <<contractAddress, contractOwner, ethereum>>
withdrawVars == <<withdrawLoading, withdrawError, withdraws, withdrawOutcome>>
clockVars == <<now, cleared>>
displayVars == <<contractBalance, balanceLoading, fetches, seenDeps>>
restVars == <<configVars, withdrawVars, clockVars, displayVars, eventState>>
connectVars == <<connectError, connectResult, reconnect>>
noteVars == <<notification, timer, shownAt>>
sessionVars == <<walletAccounts, listeners, isClient, walletState, checks, connects, connectVars>>
tipVars == <<amount, message, isLoading, error, attempts, outcome, noteVars>>
vars == <<ledgerVars, restVars, sessionVars, tipVars>>

NoCall == [fn |-> "none", sender |-> "", value |-> 0, ok |-> FALSE, before |-> 0, paid |-> 0]

(***************************************************************************)
(* TipJar.sol.  Each function maps the balances as credited with msg.value *)
(* to [ok, bal, paid]; ok = FALSE is a revert.                             *)
(***************************************************************************)
\* tip without its require: a zero deposit is accepted
tip_NoRequire(bal, sender, value, text) ==
  [ok |-> TRUE, bal |-> bal, paid |-> 0]

tip(bal, sender, value, text) ==
  IF value > 0
    THEN [ok |-> TRUE, bal |-> bal, paid |-> 0]
    ELSE [ok |-> FALSE, bal |-> bal, paid |-> 0]

\* withdraw without its require: any caller sweeps the balance to the owner
withdraw_AnyCaller(bal, sender) ==
  [ok |-> TRUE,
   bal |-> [bal EXCEPT ![Jar] = 0, ![owner] = @ + bal[Jar]],
   paid |-> bal[Jar]]

\* withdraw that transfers all but one unit of the balance
withdraw_KeepsOne(bal, sender) ==
  LET sent == IF bal[Jar] > 0 THEN bal[Jar] - 1 ELSE 0
  IN  IF sender = owner
        THEN [ok |-> TRUE,
              bal |-> [bal EXCEPT ![Jar] = @ - sent, ![owner] = @ + sent],
              paid |-> sent]
        ELSE [ok |-> FALSE, bal |-> bal, paid |-> 0]

withdraw(bal, sender) ==
  IF sender = owner
    THEN [ok |-> TRUE,
          bal |-> [bal EXCEPT ![Jar] = 0, ![owner] = @ + bal[Jar]],
          paid |-> bal[Jar]]
    ELSE [ok |-> FALSE, bal |-> bal, paid |-> 0]

getBalance(bal) == bal[Jar]

\* the function of TipJar that the call data selects; TipJar has neither a
\* receive nor a fallback function, and only tip is payable
Selected(tx) ==
  CASE tx.data.kind = "tip(string)" -> "tip"
    [] tx.data.kind = "withdraw()" -> "withdraw"
    [] OTHER -> "none"

\* the EVM executing transaction tx on balances bal
Execute(bal, tx) ==
  LET credited == [bal EXCEPT ![tx.from] = @ - tx.value, ![tx.to] = @ + tx.value]
      revert == [ok |-> FALSE, bal |-> bal, paid |-> 0]
  IN  IF tx.to # Jar THEN [ok |-> TRUE, bal |-> credited, paid |-> 0]
      ELSE CASE Selected(tx) = "tip" -> 
                  LET r == tip(credited, tx.from, tx.value, tx.data.text)
                  IN  IF r.ok THEN r ELSE revert
             [] Selected(tx) = "withdraw" ->
                  IF tx.value > 0 THEN revert
                  ELSE LET r == withdraw(credited, tx.from)
                       IN  IF r.ok THEN r ELSE revert
             [] OTHER -> revert

\* a transaction is mined: the chain takes its effect and records the call
Mine(tx) ==
  LET r == Execute(chainBalance, tx)
  IN  /\ chainBalance[tx.from] >= tx.value
      /\ chainBalance' = r.bal
      /\ lastCall' = [fn |-> IF tx.to = Jar THEN Selected(tx) ELSE "transfer",
                      sender |-> tx.from, value |-> tx.value, ok |-> r.ok,
                      before |-> chainBalance[Jar], paid |-> r.paid]
      /\ UNCHANGED owner

\* the constructor, run by deployer: owner = msg.sender, the contract holds nothing
LedgerInit(deployer) ==
  /\ owner = deployer
  /\ chainBalance = [a \in Accounts |-> IF a \in Users THEN InitFunds ELSE 0]
  /\ lastCall = NoCall

frontVars ==
  <<contractAddress, contractOwner, ethereum, walletAccounts, listeners, isClient, walletState,
    checks, connects, connectVars, amount, message, isLoading, error, attempts, outcome,
    noteVars, withdrawVars, clockVars, displayVars, eventState>>

\* direct calls of the contract's functions by any account
CallTip(sender, value, text) ==
  /\ Mine([from |-> sender, to |-> Jar, value |-> value, data |-> TipCallData(text)])
  /\ UNCHANGED frontVars

CallWithdraw(sender) ==
  /\ Mine([from |-> sender, to |-> Jar, value |-> 0, data |-> WithdrawSelector])
  /\ UNCHANGED frontVars

\* a plain transfer to the contract, with or without data
CallOther(sender, value, data) ==
  /\ Mine([from |-> sender, to |-> Jar, value |-> value, data |-> data])
  /\ UNCHANGED frontVars

(***************************************************************************)
(* useWallet.ts: the session hook.  Every component that calls useWallet   *)
(* holds a walletState of its own.                                         *)
(***************************************************************************)
NoError == "null"

InitialWalletState ==
  [address |-> NullAddress, isConnected |-> FALSE, balance |-> <<"0">>, isLoading |-> FALSE]

\* connectWallet has not been called since the page was loaded
NoConnectResult ==
  [result |-> "none", address |-> NullAddress, prompted |-> FALSE, restored |-> FALSE]

\* handleWithdraw has not been called since the page was loaded
NoWithdrawOutcome == [result |-> "none", reported |-> <<>>, refreshed |-> "none"]

\* what eth_accounts answers: the exposed accounts, in lower case
EthAccounts == [i \in 1..Len(walletAccounts) |-> Address(walletAccounts[i], "lower")]

\* the account lists the wallet may expose
AccountLists == {<<>>} \cup {<<u>> : u \in Users}

\* provider.getBalance(address)
GetBalance(address) == chainBalance[address.id]

Remove(s, k) == SubSeq(s, 1, k - 1) \o SubSeq(s, k + 1, Len(s))

\* the state checkIfWalletIsConnected and connectWallet set on success
ConnectedState(address) ==
  [address |-> address, isConnected |-> TRUE,
   balance |-> formatEther(GetBalance(address)), isLoading |-> FALSE]

\* disconnectWallet that keeps the cached balance
disconnectWallet_KeepsBalance(prev) ==
  [address |-> NullAddress, isConnected |-> FALSE, balance |-> prev.balance, isLoading |-> FALSE]

\* disconnectWallet that keeps the address
disconnectWallet_KeepsAddress(prev) ==
  [address |-> prev.address, isConnected |-> FALSE, balance |-> <<"0">>, isLoading |-> FALSE]

\* disconnectWallet: the new walletState
disconnectWallet(prev) ==
  [address |-> NullAddress, isConnected |-> FALSE, balance |-> <<"0">>, isLoading |-> FALSE]

\* checkIfWalletIsConnected up to its first await: the calls then in flight
checkIfWalletIsConnected(h, client) ==
  IF ~client \/ ~ethereum THEN checks[h]
  ELSE Append(checks[h], [stage |-> "accounts", address |-> NullAddress])

\* an accountsChanged listener that handles only the empty list
Deliver_IgnoresSwitch(accounts) ==
  /\ walletState' = [h \in Hooks |->
       IF h \in listeners /\ Len(accounts) = 0
         THEN disconnectWallet(walletState[h]) ELSE walletState[h]]
  /\ UNCHANGED checks

\* the wallet emits accountsChanged(accounts): every registered listener runs
Deliver(accounts) ==
  /\ accounts # <<>> => \A h \in listeners : Len(checks[h]) < MaxInFlight
  /\ walletState' = [h \in Hooks |->
       IF h \in listeners /\ Len(accounts) = 0
         THEN disconnectWallet(walletState[h]) ELSE walletState[h]]
  /\ checks' = [h \in Hooks |->
       IF h \in listeners /\ Len(accounts) # 0
         THEN checkIfWalletIsConnected(h, TRUE) ELSE checks[h]]

\* a connectWallet that asks for permissions anew
ConnectMethod_Permissions == "wallet_requestPermissions"

\* the method connectWallet passes to window.ethereum.request
ConnectMethod == "eth_requestAccounts"

\* the wallet shows its permission prompt for a request of the method:
\* always for wallet_requestPermissions, for eth_requestAccounts only while
\* the page has no account exposed
Prompts(method) ==
  \/ method = "wallet_requestPermissions"
  \/ method = "eth_requestAccounts" /\ walletAccounts = <<>>

\* the wallet answers a request for accounts with the non-empty list granted:
\* the exposed accounts when it shows no prompt, else the user's choice, and
\* a changed exposure is announced by accountsChanged
Answer(method, granted) ==
  IF ~Prompts(method)
    THEN granted = walletAccounts /\ UNCHANGED <<walletAccounts, walletState, checks>>
    ELSE IF granted = walletAccounts
    THEN UNCHANGED <<walletAccounts, walletState, checks>>
    ELSE walletAccounts' = granted /\ Deliver(granted)

\* provider.getSigner(): the method it requests when eth_accounts lists no
\* account (with an account listed it requests nothing more)
SignerMethod == "eth_requestAccounts"

\* the component mounts: setIsClient(true), then the effect checks for an
\* existing connection and registers the listeners
Mount(h) ==
  /\ ~isClient[h]
  /\ isClient' = [isClient EXCEPT ![h] = TRUE]
  /\ checks' = [checks EXCEPT ![h] = checkIfWalletIsConnected(h, TRUE)]
  /\ listeners' = IF ethereum THEN listeners \cup {h} ELSE listeners
  /\ UNCHANGED <<ledgerVars, restVars, tipVars, walletAccounts, walletState,
                 connects, connectVars>>

\* the user changes the exposed accounts in the wallet (switch, lock, revoke, grant)
SwitchAccounts(accounts) ==
  /\ ethereum
  /\ accounts \in AccountLists
  /\ accounts # walletAccounts
  /\ walletAccounts' = accounts
  /\ Deliver(accounts)

AccountsChanged(accounts) ==
  /\ SwitchAccounts(accounts)
  /\ UNCHANGED <<ledgerVars, restVars, tipVars, listeners, isClient, connects, connectVars>>

\* the wallet emits chainChanged: the listener reloads the page, which
\* discards every component's state and every call in flight
ChainChanged ==
  /\ listeners # {}
  /\ listeners' = {}
  /\ isClient' = [h \in Hooks |-> FALSE]
  /\ walletState' = [h \in Hooks |-> InitialWalletState]
  /\ checks' = [h \in Hooks |-> <<>>]
  /\ connects' = <<>>
  /\ connectError' = NoError
  /\ connectResult' = NoConnectResult
  /\ reconnect' = InitialWalletState
  /\ withdrawLoading' = FALSE
  /\ withdrawError' = NoError
  /\ withdraws' = <<>>
  /\ withdrawOutcome' = NoWithdrawOutcome
  /\ timer' = 0
  /\ shownAt' = 0
  /\ amount' = <<>>
  /\ message' = ""
  /\ isLoading' = FALSE
  /\ error' = NoError
  /\ attempts' = <<>>
  /\ outcome' = [result |-> "none", emitted |-> <<>>, refreshed |-> "none"]
  /\ notification' = [type |-> "info", message |-> [text |-> "", amount |-> <<>>],
                      isVisible |-> FALSE]
  /\ contractBalance' = <<"0">>
  /\ balanceLoading' = FALSE
  /\ fetches' = 0
  /\ seenDeps' = [isConnected |-> FALSE, isClient |-> FALSE, userBalance |-> <<"0">>]
  /\ UNCHANGED <<ledgerVars, configVars, clockVars, eventState, walletAccounts>>

\* checkIfWalletIsConnected: the eth_accounts request settles
AccountsAnswered(h, k, ok) ==
  /\ k \in 1..Len(checks[h])
  /\ checks[h][k].stage = "accounts"
  /\ checks' = [checks EXCEPT ![h] =
       IF ok /\ Len(EthAccounts) > 0
         THEN [@ EXCEPT ![k] = [stage |-> "balance", address |-> EthAccounts[1]]]
         ELSE Remove(@, k)]

CheckAccountsSettled(h, k, ok) ==
  /\ AccountsAnswered(h, k, ok)
  /\ UNCHANGED <<ledgerVars, restVars, tipVars, walletAccounts, listeners, isClient,
                 walletState, connects, connectVars>>

\* checkIfWalletIsConnected: the getBalance request settles
BalanceAnswered(h, k, ok) ==
  /\ k \in 1..Len(checks[h])
  /\ checks[h][k].stage = "balance"
  /\ walletState' = [walletState EXCEPT ![h] =
       IF ok THEN ConnectedState(checks[h][k].address) ELSE @]
  /\ checks' = [checks EXCEPT ![h] = Remove(@, k)]

\* a checkIfWalletIsConnected whose catch block resets the session
CheckBalanceSettled_ResetsOnError(h, k, ok) ==
  /\ k \in 1..Len(checks[h])
  /\ checks[h][k].stage = "balance"
  /\ walletState' = [walletState EXCEPT ![h] =
       IF ok THEN ConnectedState(checks[h][k].address) ELSE InitialWalletState]
  /\ checks' = [checks EXCEPT ![h] = Remove(@, k)]
  /\ UNCHANGED <<ledgerVars, restVars, tipVars, walletAccounts, listeners, isClient,
                 connects, connectVars>>

\* checkIfWalletIsConnected: the getBalance request settles, the rest is untouched
CheckBalanceSettled(h, k, ok) ==
  /\ BalanceAnswered(h, k, ok)
  /\ UNCHANGED <<ledgerVars, restVars, tipVars, walletAccounts, listeners, isClient,
                 connects, connectVars>>

\* ConnectWallet renders the connect button, and it is not disabled
ConnectEnabled ==
  LET ws == walletState["ConnectWallet"]
  IN  /\ isClient["ConnectWallet"]
      /\ ~(ws.isConnected /\ ws.address # NullAddress)
      /\ ~ws.isLoading

\* ConnectWallet.handleConnect and connectWallet up to its first await
ConnectClick ==
  /\ ConnectEnabled
  /\ Len(connects) < MaxInFlight
  /\ IF ~isClient["ConnectWallet"] \/ ~ethereum
       THEN /\ walletState' = [walletState EXCEPT !["ConnectWallet"].isLoading = FALSE]
            /\ connectError' = "MetaMask is not installed"
            /\ connectResult' = [NoConnectResult EXCEPT !.result = "error"]
            /\ UNCHANGED connects
       ELSE /\ walletState' = [walletState EXCEPT !["ConnectWallet"].isLoading = TRUE]
            /\ connectError' = NoError
            /\ connectResult' = NoConnectResult
            /\ connects' = Append(connects,
                 [stage |-> "request", address |-> NullAddress, prompted |-> FALSE,
                  before |-> walletState["ConnectWallet"]])
  /\ UNCHANGED reconnect
  /\ UNCHANGED <<ledgerVars, restVars, tipVars, walletAccounts, listeners, isClient, checks>>

\* a catch block that does not reset the loading flag
ConnectFailed_KeepsLoading(k, msg, prompted) ==
  /\ connectError' = msg
  /\ connectResult' = [NoConnectResult EXCEPT !.result = "error", !.prompted = prompted]
  /\ connects' = Remove(connects, k)
  /\ UNCHANGED <<reconnect, walletState>>

\* connectWallet's catch block and handleConnect's
ConnectFailed(k, msg, prompted) ==
  /\ walletState' = [walletState EXCEPT !["ConnectWallet"].isLoading = FALSE]
  /\ connectError' = msg
  /\ connectResult' = [NoConnectResult EXCEPT !.result = "error", !.prompted = prompted]
  /\ connects' = Remove(connects, k)
  /\ UNCHANGED reconnect

\* connectWallet: the eth_requestAccounts request settles.  With exposed
\* accounts the wallet answers at once; without, it prompts, and the user
\* grants an account (the wallet then emits accountsChanged) or declines.
ConnectRequestSettled(k, granted) ==
  /\ k \in 1..Len(connects)
  /\ connects[k].stage = "request"
  /\ granted \in AccountLists
  /\ IF granted = <<>>
       THEN /\ ConnectFailed(k, "User rejected the request", Prompts(ConnectMethod))
            /\ UNCHANGED <<walletAccounts, checks>>
       ELSE /\ connects' = [connects EXCEPT ![k].stage = "balance",
                                           ![k].address = Address(granted[1], "lower"),
                                           ![k].prompted = Prompts(ConnectMethod)]
            /\ UNCHANGED connectVars
            /\ Answer(ConnectMethod, granted)
  /\ UNCHANGED <<ledgerVars, restVars, tipVars, listeners, isClient>>

\* a connectWallet that updates the session from the previous state and so
\* keeps the loading flag it set
ConnectBalanceSettled_KeepsLoading(k, ok) ==
  /\ k \in 1..Len(connects)
  /\ connects[k].stage = "balance"
  /\ IF ok
       THEN /\ walletState' = [walletState EXCEPT !["ConnectWallet"] =
                 [ConnectedState(connects[k].address) EXCEPT !.isLoading = TRUE]]
            /\ connects' = Remove(connects, k)
            /\ connectResult' =
                 [result |-> "ok", address |-> connects[k].address,
                  prompted |-> connects[k].prompted, restored |-> FALSE]
            /\ reconnect' = InitialWalletState
            /\ UNCHANGED connectError
       ELSE ConnectFailed(k, "could not fetch balance", connects[k].prompted)
  /\ UNCHANGED <<ledgerVars, restVars, tipVars, walletAccounts, listeners, isClient, checks>>

\* connectWallet: the getBalance request settles
ConnectBalanceSettled(k, ok) ==
  /\ k \in 1..Len(connects)
  /\ connects[k].stage = "balance"
  /\ IF ok
       THEN /\ walletState' = [walletState EXCEPT !["ConnectWallet"] =
                 ConnectedState(connects[k].address)]
            /\ connects' = Remove(connects, k)
            /\ connectResult' =
                 [result |-> "ok", address |-> connects[k].address,
                  prompted |-> connects[k].prompted,
                  restored |-> reconnect.isConnected
                                 /\ ConnectedState(connects[k].address) = reconnect]
            /\ reconnect' = InitialWalletState
            /\ UNCHANGED connectError
       ELSE ConnectFailed(k, "could not fetch balance", connects[k].prompted)
  /\ UNCHANGED <<ledgerVars, restVars, tipVars, walletAccounts, listeners, isClient, checks>>

\* ConnectWallet renders the disconnect button: onClick = disconnectWallet
DisconnectClick ==
  /\ isClient["ConnectWallet"]
  /\ walletState["ConnectWallet"].isConnected
  /\ walletState["ConnectWallet"].address # NullAddress
  /\ walletState' = [walletState EXCEPT !["ConnectWallet"] = disconnectWallet(@)]
  /\ reconnect' = walletState["ConnectWallet"]
  /\ UNCHANGED <<ledgerVars, restVars, tipVars, walletAccounts, listeners, isClient,
                 checks, connects, connectError, connectResult>>

\* WithdrawButton.isOwner
isOwner ==
  LET ws == walletState["WithdrawButton"]
  IN  /\ ws.isConnected
      /\ ws.address # NullAddress
      /\ contractOwner # NullAddress
      /\ toLowerCase(ws.address) = toLowerCase(contractOwner)

(***************************************************************************)
(* page.tsx: the notification slot and the callback given to TipForm.      *)
(***************************************************************************)
NoText == [text |-> "", amount |-> <<>>]

\* a showNotification that leaves a visible notification on display
showNotification_KeepsVisible(type, msg) ==
  IF notification.isVisible THEN notification
  ELSE [type |-> type, message |-> msg, isVisible |-> TRUE]

\* showNotification: the value it passes to setNotification
showNotification(type, msg) == [type |-> type, message |-> msg, isVisible |-> TRUE]

\* an effect that does not run again while the notification stays visible:
\* the pending timeout is kept
Notify_KeepsTimer(n) ==
  /\ notification' = n
  /\ timer' = IF notification.isVisible /\ timer # 0 THEN timer ELSE now + AutoClose
  /\ shownAt' = now

\* setNotification(n) with n visible, and the effect of Notification that
\* the re-render of Home runs (Home passes a new onClose at every render):
\* the pending timeout is cleared and a new one is set
Notify(n) ==
  /\ notification' = n
  /\ timer' = now + AutoClose
  /\ shownAt' = now

\* handleTipSent: the notification shown for a TipTransaction
handleTipSent(transaction) ==
  CASE transaction.status = "pending" ->
         showNotification("info", [text |-> "Tip is being processed", amount |-> transaction.amount])
    [] transaction.status = "success" ->
         showNotification("success", [text |-> "Successfully sent tip", amount |-> transaction.amount])
    [] transaction.status = "error" ->
         showNotification("error", [text |-> "Failed to send tip. Please try again.", amount |-> <<>>])
    [] OTHER -> notification

\* handleWithdraw of page.tsx, the onWithdraw prop of WithdrawButton: the
\* notification shown; the text quotes the transaction hash when one is given
onWithdraw(success, txHash) ==
  IF success
    THEN showNotification("success",
           [text |-> "Successfully withdrew all tips!", amount |-> <<>>, hash |-> txHash])
    ELSE showNotification("error",
           [text |-> "Failed to withdraw funds. Please try again.", amount |-> <<>>])

(***************************************************************************)
(* TipForm.tsx.  An attempt is one invocation of handleSubmit that passed  *)
(* validation: pc is the await it is suspended at, amount, message and     *)
(* address are the values its closure captured.                            *)
(***************************************************************************)
\* the values setAmount may receive: the text of the amount input (empty, not a
\* number where the browser hands such text over, zero, a positive number) or a
\* quick amount
AmountInputs == {<<>>, <<"a">>, <<"0">>, <<"1", ".", "0">>}

NoTx == [from |-> "", to |-> "", value |-> 0, data |-> EmptyData]
NoOutcome == [result |-> "none", emitted |-> <<>>, refreshed |-> "none"]

\* the form is rendered: the component is past its isClient and isConnected returns
FormRendered == isClient["TipForm"] /\ walletState["TipForm"].isConnected

\* a submit button that is disabled only while the amount is empty
SubmitEnabled_IgnoresLoading == FormRendered /\ amount # <<>>

\* the submit button is rendered and not disabled
SubmitEnabled == FormRendered /\ ~(isLoading \/ amount = <<>>)

\* transaction hashes are opaque: the least number no attempt in flight uses
FreshHash == CHOOSE n \in 1..(Len(attempts) + 1) : \A i \in 1..Len(attempts) : attempts[i].hash # n

SetAmount(s) ==
  /\ FormRendered
  /\ s \in AmountInputs
  /\ s # amount
  /\ amount' = s
  /\ UNCHANGED <<ledgerVars, restVars, sessionVars, message, isLoading, error, attempts,
                 outcome, noteVars>>

SetMessage(m) ==
  /\ FormRendered
  /\ m \in Messages
  /\ m # message
  /\ message' = m
  /\ UNCHANGED <<ledgerVars, restVars, sessionVars, amount, isLoading, error, attempts,
                 outcome, noteVars>>

\* handleSubmit up to its first await
handleSubmit ==
  /\ SubmitEnabled
  /\ Len(attempts) < MaxAttempts
  /\ IF ~walletState["TipForm"].isConnected \/ contractAddress = "" \/ ~ethereum
       THEN /\ error' = "Please connect your wallet first"
            /\ outcome' = [NoOutcome EXCEPT !.result = "invalid"]
            /\ UNCHANGED <<isLoading, attempts>>
       ELSE IF amount = <<>> \/ LeqZero(parseFloat(amount))
       THEN /\ error' = "Please enter a valid tip amount"
            /\ outcome' = [NoOutcome EXCEPT !.result = "invalid"]
            /\ UNCHANGED <<isLoading, attempts>>
       ELSE /\ isLoading' = TRUE
            /\ error' = NoError
            /\ attempts' = Append(attempts,
                 [pc |-> "signer", amount |-> amount, message |-> message,
                  address |-> walletState["TipForm"].address, tx |-> NoTx, hash |-> 0,
                  emitted |-> <<>>])
            /\ outcome' = NoOutcome
  /\ UNCHANGED <<ledgerVars, restVars, sessionVars, amount, message, noteVars>>

\* err.message of whatever an adapter call or parseEther throws
ErrMessage == "err.message"

\* a catch block that also resets the form
Catch_ResetsForm(i) ==
  LET a == attempts[i]
      record == [amount |-> a.amount, message |-> a.message, hash |-> 0, status |-> "error"]
  IN  /\ error' = ErrMessage
      /\ Notify(handleTipSent(record))
      /\ isLoading' = FALSE
      /\ attempts' = Remove(attempts, i)
      /\ outcome' = [result |-> "error", emitted |-> Append(a.emitted, record),
                     refreshed |-> "none"]
      /\ amount' = <<>>
      /\ message' = ""

\* a handler without its finally block: the loading flag stays set
Catch_KeepsLoading(i) ==
  LET a == attempts[i]
      record == [amount |-> a.amount, message |-> a.message, hash |-> 0, status |-> "error"]
  IN  /\ error' = ErrMessage
      /\ Notify(handleTipSent(record))
      /\ attempts' = Remove(attempts, i)
      /\ outcome' = [result |-> "error", emitted |-> Append(a.emitted, record),
                     refreshed |-> "none"]
      /\ UNCHANGED <<amount, message, isLoading>>

\* a catch block that does not call onTipSent
Catch_NoReport(i) ==
  /\ error' = ErrMessage
  /\ isLoading' = FALSE
  /\ attempts' = Remove(attempts, i)
  /\ outcome' = [result |-> "error", emitted |-> attempts[i].emitted, refreshed |-> "none"]
  /\ UNCHANGED <<amount, message, noteVars>>

\* the catch block, then finally
Catch(i) ==
  LET a == attempts[i]
      record == [amount |-> a.amount, message |-> a.message, hash |-> 0, status |-> "error"]
  IN  /\ error' = ErrMessage
      /\ Notify(handleTipSent(record))
      /\ isLoading' = FALSE
      /\ attempts' = Remove(attempts, i)
      /\ outcome' = [result |-> "error", emitted |-> Append(a.emitted, record),
                     refreshed |-> "none"]
      /\ UNCHANGED <<amount, message>>

\* a try block that reports success without resetting the message
Succeed_KeepsMessage(i, refreshed) ==
  LET a == attempts[i]
      record == [amount |-> a.amount, message |-> a.message, hash |-> a.hash, status |-> "success"]
  IN  /\ amount' = <<>>
      /\ Notify(handleTipSent(record))
      /\ isLoading' = FALSE
      /\ attempts' = Remove(attempts, i)
      /\ outcome' = [result |-> "success", emitted |-> Append(a.emitted, record),
                     refreshed |-> refreshed]
      /\ UNCHANGED <<error, message>>

\* the rest of the try block after updateBalance, then finally
Succeed(i, refreshed) ==
  LET a == attempts[i]
      record == [amount |-> a.amount, message |-> a.message, hash |-> a.hash, status |-> "success"]
  IN  /\ amount' = <<>>
      /\ message' = ""
      /\ Notify(handleTipSent(record))
      /\ isLoading' = FALSE
      /\ attempts' = Remove(attempts, i)
      /\ outcome' = [result |-> "success", emitted |-> Append(a.emitted, record),
                     refreshed |-> refreshed]
      /\ UNCHANGED error

\* the transaction handleSubmit builds
BuildTransaction(signer, a) ==
  [from |-> signer, to |-> contractAddress, value |-> parseEther(a.amount).value,
   data |-> IF a.message # "" THEN Utf8Data(a.message) ELSE EmptyData]

\* provider.getSigner() settles.  Without exposed accounts the provider asks
\* for them (eth_requestAccounts): the user grants one or declines.
TipSignerSettled(i, granted) ==
  /\ i \in 1..Len(attempts)
  /\ attempts[i].pc = "signer"
  /\ granted \in AccountLists
  /\ IF granted = <<>>
       THEN /\ Catch(i)
            /\ UNCHANGED <<walletAccounts, walletState, checks>>
       ELSE /\ Answer(SignerMethod, granted)
            /\ IF parseEther(attempts[i].amount).ok
                 THEN /\ attempts' = [attempts EXCEPT ![i].pc = "send",
                                        ![i].tx = BuildTransaction(granted[1], attempts[i])]
                      /\ UNCHANGED <<amount, message, isLoading, error, outcome, noteVars>>
                 ELSE Catch(i)
  /\ UNCHANGED <<ledgerVars, restVars, listeners, isClient, connects, connectVars>>

\* estimateGas, run by sendTransaction because the transaction sets no gasLimit
EstimateGas(tx) == chainBalance[tx.from] >= tx.value /\ Execute(chainBalance, tx).ok

\* signer.sendTransaction settles: the estimate fails, the user declines or the
\* broadcast fails (sent = FALSE), or the transaction is broadcast
TipSendSettled(i, sent) ==
  /\ i \in 1..Len(attempts)
  /\ attempts[i].pc = "send"
  /\ sent => EstimateGas(attempts[i].tx)
  /\ IF sent
       THEN LET a == attempts[i]
                record == [amount |-> a.amount, message |-> a.message,
                           hash |-> FreshHash, status |-> "pending"]
            IN  /\ attempts' = [attempts EXCEPT ![i].pc = "wait", ![i].hash = FreshHash,
                                                ![i].emitted = Append(@, record)]
                /\ Notify(handleTipSent(record))
                /\ UNCHANGED <<amount, message, isLoading, error, outcome>>
       ELSE Catch(i)
  /\ UNCHANGED <<ledgerVars, restVars, sessionVars>>

\* updateBalance up to its await, called from the closure of attempt a:
\* TRUE when it returns at once
UpdateBalanceReturns(a) == ~isClient["TipForm"] \/ a.address = NullAddress \/ ~ethereum

\* tx.wait() settles: the transaction is mined (and may revert), or waiting fails
TipWaitSettled(i, mined) ==
  /\ i \in 1..Len(attempts)
  /\ attempts[i].pc = "wait"
  /\ IF mined
       THEN /\ Mine(attempts[i].tx)
            /\ IF ~Execute(chainBalance, attempts[i].tx).ok
                 THEN Catch(i)
                 ELSE IF UpdateBalanceReturns(attempts[i])
                 THEN Succeed(i, "skipped")
                 ELSE /\ attempts' = [attempts EXCEPT ![i].pc = "refresh"]
                      /\ UNCHANGED <<amount, message, isLoading, error, outcome, noteVars>>
       ELSE /\ Catch(i)
            /\ UNCHANGED ledgerVars
  /\ UNCHANGED <<restVars, sessionVars>>

\* updateBalance: the getBalance request settles; the flow resumes
TipRefreshSettled(i, ok) ==
  /\ i \in 1..Len(attempts)
  /\ attempts[i].pc = "refresh"
  /\ walletState' = [walletState EXCEPT !["TipForm"].balance =
       IF ok THEN formatEther(GetBalance(attempts[i].address)) ELSE @]
  /\ Succeed(i, IF ok THEN "ok" ELSE "failed")
  /\ UNCHANGED <<ledgerVars, restVars, walletAccounts, listeners, isClient, checks,
                 connects, connectVars>>

(***************************************************************************)
(* WithdrawButton.tsx.  An entry of withdraws is one invocation of         *)
(* handleWithdraw that passed both checks: pc is the await it is suspended *)
(* at, address the session address its closure captured.                   *)
(***************************************************************************)
formVars == <<amount, message, isLoading, error, attempts, outcome>>

\* the withdraw button is rendered: the component is past its isClient,
\* isConnected and isOwner returns
WithdrawRendered ==
  isClient["WithdrawButton"] /\ walletState["WithdrawButton"].isConnected /\ isOwner

\* handleWithdraw without its owner check
handleWithdraw_NoOwnerCheck(direct) ==
  /\ direct \/ WithdrawRendered
  /\ ~withdrawLoading
  /\ Len(withdraws) < MaxAttempts
  /\ IF ~walletState["WithdrawButton"].isConnected \/ contractAddress = "" \/ ~ethereum
       THEN /\ withdrawError' = "Please connect your wallet first"
            /\ withdrawOutcome' = [NoWithdrawOutcome EXCEPT !.result = "not connected"]
            /\ UNCHANGED <<withdrawLoading, withdraws>>
       ELSE /\ withdrawLoading' = TRUE
            /\ withdrawError' = NoError
            /\ withdraws' = Append(withdraws,
                 [pc |-> "signer", address |-> walletState["WithdrawButton"].address,
                  tx |-> NoTx, hash |-> 0])
            /\ withdrawOutcome' = NoWithdrawOutcome
  /\ UNCHANGED <<ledgerVars, configVars, clockVars, displayVars, eventState, sessionVars, tipVars>>

\* handleWithdraw up to its first await, called by a click on the button when
\* it is not disabled or (direct) by a caller that does not go through the
\* rendered button
handleWithdraw(direct) ==
  /\ direct \/ WithdrawRendered
  /\ ~withdrawLoading
  /\ Len(withdraws) < MaxAttempts
  /\ IF ~walletState["WithdrawButton"].isConnected \/ contractAddress = "" \/ ~ethereum
       THEN /\ withdrawError' = "Please connect your wallet first"
            /\ withdrawOutcome' = [NoWithdrawOutcome EXCEPT !.result = "not connected"]
            /\ UNCHANGED <<withdrawLoading, withdraws>>
       ELSE IF ~isOwner
       THEN /\ withdrawError' = "Only the contract owner can withdraw funds"
            /\ withdrawOutcome' = [NoWithdrawOutcome EXCEPT !.result = "not owner"]
            /\ UNCHANGED <<withdrawLoading, withdraws>>
       ELSE /\ withdrawLoading' = TRUE
            /\ withdrawError' = NoError
            /\ withdraws' = Append(withdraws,
                 [pc |-> "signer", address |-> walletState["WithdrawButton"].address,
                  tx |-> NoTx, hash |-> 0])
            /\ withdrawOutcome' = NoWithdrawOutcome
  /\ UNCHANGED <<ledgerVars, configVars, clockVars, displayVars, eventState, sessionVars, tipVars>>

\* the catch block, then finally
WithdrawCatch(j) ==
  /\ withdrawError' = ErrMessage
  /\ Notify(onWithdraw(FALSE, 0))
  /\ withdrawLoading' = FALSE
  /\ withdraws' = Remove(withdraws, j)
  /\ withdrawOutcome' = [result |-> "error", reported |-> <<[success |-> FALSE, hash |-> 0]>>,
                         refreshed |-> "none"]

\* a try block that reports success without the transaction hash
WithdrawSucceed_NoHash(j, refreshed) ==
  /\ Notify(onWithdraw(TRUE, 0))
  /\ withdrawLoading' = FALSE
  /\ withdraws' = Remove(withdraws, j)
  /\ withdrawOutcome' = [result |-> "success",
                         reported |-> <<[success |-> TRUE, hash |-> 0]>>,
                         refreshed |-> refreshed]
  /\ UNCHANGED withdrawError

\* the rest of the try block after updateBalance, then finally
WithdrawSucceed(j, refreshed) ==
  /\ Notify(onWithdraw(TRUE, withdraws[j].hash))
  /\ withdrawLoading' = FALSE
  /\ withdraws' = Remove(withdraws, j)
  /\ withdrawOutcome' = [result |-> "success",
                         reported |-> <<[success |-> TRUE, hash |-> withdraws[j].hash]>>,
                         refreshed |-> refreshed]
  /\ UNCHANGED withdrawError

\* provider.getSigner() settles, as in TipForm
WithdrawSignerSettled(j, granted) ==
  /\ j \in 1..Len(withdraws)
  /\ withdraws[j].pc = "signer"
  /\ granted \in AccountLists
  /\ IF granted = <<>>
       THEN /\ WithdrawCatch(j)
            /\ UNCHANGED <<walletAccounts, walletState, checks>>
       ELSE /\ Answer(SignerMethod, granted)
            /\ withdraws' = [withdraws EXCEPT ![j].pc = "balance",
                 ![j].tx = [from |-> granted[1], to |-> contractAddress, value |-> 0,
                            data |-> WithdrawSelector]]
            /\ UNCHANGED <<withdrawLoading, withdrawError, withdrawOutcome, noteVars>>
  /\ UNCHANGED <<ledgerVars, configVars, clockVars, displayVars, eventState, listeners, isClient, connects, connectVars,
                 formVars>>

\* a handler that sends the transaction whatever balance it read
WithdrawBalanceSettled_NoCheck(j, ok) ==
  /\ j \in 1..Len(withdraws)
  /\ withdraws[j].pc = "balance"
  /\ IF ~ok THEN WithdrawCatch(j)
       ELSE /\ withdraws' = [withdraws EXCEPT ![j].pc = "send"]
            /\ UNCHANGED <<withdrawLoading, withdrawError, withdrawOutcome, noteVars>>
  /\ UNCHANGED <<ledgerVars, configVars, clockVars, displayVars, eventState, sessionVars, formVars>>

\* provider.getBalance(contractAddress) settles: with a balance of 0 the
\* handler reports that there is nothing to withdraw and returns through finally
WithdrawBalanceSettled(j, ok) ==
  /\ j \in 1..Len(withdraws)
  /\ withdraws[j].pc = "balance"
  /\ IF ~ok THEN WithdrawCatch(j)
       ELSE IF chainBalance[contractAddress] = 0
       THEN /\ withdrawError' = "No funds available to withdraw"
            /\ withdrawLoading' = FALSE
            /\ withdraws' = Remove(withdraws, j)
            /\ withdrawOutcome' = [NoWithdrawOutcome EXCEPT !.result = "no funds"]
            /\ UNCHANGED noteVars
       ELSE /\ withdraws' = [withdraws EXCEPT ![j].pc = "send"]
            /\ UNCHANGED <<withdrawLoading, withdrawError, withdrawOutcome, noteVars>>
  /\ UNCHANGED <<ledgerVars, configVars, clockVars, displayVars, eventState, sessionVars, formVars>>

\* the least number no invocation in flight uses as transaction hash
FreshWithdrawHash ==
  CHOOSE n \in 1..(Len(withdraws) + 1) : \A j \in 1..Len(withdraws) : withdraws[j].hash # n

\* signer.sendTransaction settles; the transaction sets its gasLimit, so no
\* gas estimate runs: the user declines or the broadcast fails (sent =
\* FALSE), or the transaction is broadcast
WithdrawSendSettled(j, sent) ==
  /\ j \in 1..Len(withdraws)
  /\ withdraws[j].pc = "send"
  /\ IF sent
       THEN /\ withdraws' = [withdraws EXCEPT ![j].pc = "wait", ![j].hash = FreshWithdrawHash]
            /\ UNCHANGED <<withdrawLoading, withdrawError, withdrawOutcome, noteVars>>
       ELSE WithdrawCatch(j)
  /\ UNCHANGED <<ledgerVars, configVars, clockVars, displayVars, eventState, sessionVars, formVars>>

\* tx.wait() settles: the transaction is mined (tx.wait throws when it
\* reverted), or waiting fails
WithdrawWaitSettled(j, mined) ==
  /\ j \in 1..Len(withdraws)
  /\ withdraws[j].pc = "wait"
  /\ IF mined
       THEN /\ Mine(withdraws[j].tx)
            /\ IF ~Execute(chainBalance, withdraws[j].tx).ok
                 THEN WithdrawCatch(j)
                 ELSE IF ~isClient["WithdrawButton"] \/ withdraws[j].address = NullAddress
                         \/ ~ethereum
                 THEN WithdrawSucceed(j, "skipped")
                 ELSE /\ withdraws' = [withdraws EXCEPT ![j].pc = "refresh"]
                      /\ UNCHANGED <<withdrawLoading, withdrawError, withdrawOutcome, noteVars>>
       ELSE /\ WithdrawCatch(j)
            /\ UNCHANGED ledgerVars
  /\ UNCHANGED <<configVars, clockVars, displayVars, eventState, sessionVars, formVars>>

\* updateBalance: the getBalance request settles; the flow resumes
WithdrawRefreshSettled(j, ok) ==
  /\ j \in 1..Len(withdraws)
  /\ withdraws[j].pc = "refresh"
  /\ walletState' = [walletState EXCEPT !["WithdrawButton"].balance =
       IF ok THEN formatEther(GetBalance(withdraws[j].address)) ELSE @]
  /\ WithdrawSucceed(j, IF ok THEN "ok" ELSE "failed")
  /\ UNCHANGED <<ledgerVars, configVars, clockVars, displayVars, eventState, walletAccounts, listeners, isClient, checks,
                 connects, connectVars, formVars>>

(***************************************************************************)
(* Initial states: the page before any component has mounted.              *)
(***************************************************************************)
SessionInit ==
  /\ listeners = {}
  /\ isClient = [h \in Hooks |-> FALSE]
  /\ walletState = [h \in Hooks |-> InitialWalletState]
  /\ checks = [h \in Hooks |-> <<>>]
  /\ connects = <<>>
  /\ connectError = NoError
  /\ connectResult = NoConnectResult
  /\ reconnect = InitialWalletState
  /\ withdrawLoading = FALSE
  /\ withdrawError = NoError
  /\ withdraws = <<>>
  /\ withdrawOutcome = NoWithdrawOutcome

TipInit ==
  /\ amount = <<>>
  /\ message = ""
  /\ isLoading = FALSE
  /\ error = NoError
  /\ attempts = <<>>
  /\ outcome = NoOutcome
  /\ notification = [type |-> "info", message |-> NoText, isVisible |-> FALSE]
  /\ timer = 0
  /\ shownAt = 0
  /\ now = 0
  /\ cleared = 0
  /\ contractBalance = <<"0">>
  /\ balanceLoading = FALSE
  /\ fetches = 0
  /\ seenDeps = [isConnected |-> FALSE, isClient |-> FALSE, userBalance |-> <<"0">>]
  /\ eventState = "idle"

\* the wallet extension, when installed, may expose an account from an earlier visit
WalletInit ==
  /\ ethereum \in BOOLEAN
  /\ walletAccounts \in (IF ethereum THEN {<<>>, <<"u1">>} ELSE {<<>>})

\* the values CONTRACT_OWNER may be configured to; the default is the
\* default of CONTRACT_ADDRESS
OwnerConfigs ==
  {Address("u1", "lower"), Address("u1", "mixed"), Address("u2", "mixed"), Address(Jar, "mixed")}

(***************************************************************************)
(* BalanceDisplay (src/unnamed/part_008), with its own useWallet session.  *)
(* Its effect runs after a render in which one of its dependencies         *)
(* changed.                                                                *)
(***************************************************************************)
\* the dependencies of the effect that change: isConnected, isClient and
\* fetchContractBalance, which is made anew when userBalance changes
DisplayDeps ==
  [isConnected |-> walletState["BalanceDisplay"].isConnected,
   isClient |-> isClient["BalanceDisplay"],
   userBalance |-> walletState["BalanceDisplay"].balance]

\* the effect, and fetchContractBalance up to its await
DisplayEffect ==
  /\ DisplayDeps # seenDeps
  /\ seenDeps' = DisplayDeps
  /\ IF contractAddress # "" /\ DisplayDeps.isConnected /\ DisplayDeps.isClient /\ ethereum
       THEN /\ fetches < MaxInFlight
            /\ balanceLoading' = TRUE
            /\ fetches' = fetches + 1
            /\ UNCHANGED contractBalance
       ELSE UNCHANGED <<contractBalance, balanceLoading, fetches>>
  /\ UNCHANGED <<ledgerVars, configVars, withdrawVars, clockVars, eventState, sessionVars, tipVars>>

\* fetchContractBalance: the getBalance request settles, then finally
FetchSettled(ok) ==
  /\ fetches > 0
  /\ contractBalance' = IF ok THEN formatEther(chainBalance[contractAddress]) ELSE contractBalance
  /\ balanceLoading' = FALSE
  /\ fetches' = fetches - 1
  /\ UNCHANGED <<ledgerVars, configVars, withdrawVars, clockVars, eventState, seenDeps, sessionVars, tipVars>>

(***************************************************************************)
(* SpecLedger: the contract, deployed by any user and called directly.     *)
(***************************************************************************)
InitLedger ==
  /\ \E deployer \in Users : LedgerInit(deployer)
  /\ contractAddress = Jar
  /\ contractOwner = Address(Jar, "mixed")
  /\ ethereum = FALSE
  /\ walletAccounts = <<>>
  /\ SessionInit
  /\ TipInit

NextLedger ==
  \/ \E s \in Users, v \in TipValues, m \in Messages : CallTip(s, v, m)
  \/ \E s \in Users : CallWithdraw(s)
  \/ \E s \in Users, v \in TipValues, d \in {EmptyData, Utf8Data("gg")} : CallOther(s, v, d)

SpecLedger == InitLedger /\ [][NextLedger]_vars

(***************************************************************************)
(* SpecTip: TipForm with its own useWallet session, the wallet, the chain. *)
(***************************************************************************)
InitTip ==
  /\ LedgerInit("u1")
  /\ contractAddress \in {Jar, Eoa}
  /\ contractOwner = Address("u1", "lower")
  /\ WalletInit
  /\ SessionInit
  /\ TipInit

NextTip ==
  \/ Mount("TipForm")
  \/ \E accounts \in AccountLists : AccountsChanged(accounts)
  \/ ChainChanged
  \/ \E k \in 1..MaxInFlight, ok \in BOOLEAN : CheckAccountsSettled("TipForm", k, ok)
  \/ \E k \in 1..MaxInFlight, ok \in BOOLEAN : CheckBalanceSettled("TipForm", k, ok)
  \/ \E s \in AmountInputs : SetAmount(s)
  \/ \E m \in Messages : SetMessage(m)
  \/ handleSubmit
  \/ \E i \in 1..MaxAttempts, granted \in AccountLists : TipSignerSettled(i, granted)
  \/ \E i \in 1..MaxAttempts, sent \in BOOLEAN : TipSendSettled(i, sent)
  \/ \E i \in 1..MaxAttempts, mined \in BOOLEAN : TipWaitSettled(i, mined)
  \/ \E i \in 1..MaxAttempts, ok \in BOOLEAN : TipRefreshSettled(i, ok)

SpecTip == InitTip /\ [][NextTip]_vars

(***************************************************************************)
(* SpecWithdraw: WithdrawButton with its own useWallet session, the        *)
(* wallet, and the contract with the tips users send it.                   *)
(***************************************************************************)
InitWithdraw ==
  /\ LedgerInit("u1")
  /\ contractAddress = Jar
  /\ contractOwner \in OwnerConfigs
  /\ WalletInit
  /\ SessionInit
  /\ TipInit

NextWithdraw ==
  \/ Mount("WithdrawButton")
  \/ \E accounts \in AccountLists : AccountsChanged(accounts)
  \/ ChainChanged
  \/ \E k \in 1..MaxInFlight, ok \in BOOLEAN : CheckAccountsSettled("WithdrawButton", k, ok)
  \/ \E k \in 1..MaxInFlight, ok \in BOOLEAN : CheckBalanceSettled("WithdrawButton", k, ok)
  \/ \E s \in Users : CallTip(s, WeiPerEther, "")
  \/ \E direct \in BOOLEAN : handleWithdraw(direct)
  \/ \E j \in 1..MaxAttempts, granted \in AccountLists : WithdrawSignerSettled(j, granted)
  \/ \E j \in 1..MaxAttempts, ok \in BOOLEAN : WithdrawBalanceSettled(j, ok)
  \/ \E j \in 1..MaxAttempts, sent \in BOOLEAN : WithdrawSendSettled(j, sent)
  \/ \E j \in 1..MaxAttempts, mined \in BOOLEAN : WithdrawWaitSettled(j, mined)
  \/ \E j \in 1..MaxAttempts, ok \in BOOLEAN : WithdrawRefreshSettled(j, ok)

SpecWithdraw == InitWithdraw /\ [][NextWithdraw]_vars

(***************************************************************************)
(* SpecSession: ConnectWallet with its useWallet session, the wallet and   *)
(* its events.                                                             *)
(***************************************************************************)
SessionHooks == {"ConnectWallet"}

InitSession ==
  /\ LedgerInit("u1")
  /\ contractAddress = Jar
  /\ contractOwner \in OwnerConfigs
  /\ WalletInit
  /\ SessionInit
  /\ TipInit

NextSession ==
  \/ \E h \in SessionHooks : Mount(h)
  \/ \E accounts \in AccountLists : AccountsChanged(accounts)
  \/ ChainChanged
  \/ \E h \in SessionHooks, k \in 1..MaxInFlight, ok \in BOOLEAN : CheckAccountsSettled(h, k, ok)
  \/ \E h \in SessionHooks, k \in 1..MaxInFlight, ok \in BOOLEAN : CheckBalanceSettled(h, k, ok)
  \/ ConnectClick
  \/ \E k \in 1..MaxInFlight, granted \in AccountLists : ConnectRequestSettled(k, granted)
  \/ \E k \in 1..MaxInFlight, ok \in BOOLEAN : ConnectBalanceSettled(k, ok)
  \/ DisconnectClick

SpecSession == InitSession /\ [][NextSession]_vars

(***************************************************************************)
(* SpecBalance: TipForm and BalanceDisplay, each with its own useWallet    *)
(* session, in a browser whose wallet exposes u1; the requests of          *)
(* BalanceDisplay succeed.                                                 *)
(***************************************************************************)
BalanceHooks == {"TipForm", "BalanceDisplay"}

InitBalance ==
  /\ LedgerInit("u1")
  /\ contractAddress \in {Jar, Eoa}
  /\ contractOwner = Address("u1", "lower")
  /\ ethereum = TRUE
  /\ walletAccounts = <<"u1">>
  /\ SessionInit
  /\ TipInit

NextBalance ==
  \/ \E h \in BalanceHooks : Mount(h)
  \/ \E k \in 1..MaxInFlight, ok \in BOOLEAN : CheckAccountsSettled("TipForm", k, ok)
  \/ \E k \in 1..MaxInFlight, ok \in BOOLEAN : CheckBalanceSettled("TipForm", k, ok)
  \/ \E k \in 1..MaxInFlight : CheckAccountsSettled("BalanceDisplay", k, TRUE)
  \/ \E k \in 1..MaxInFlight : CheckBalanceSettled("BalanceDisplay", k, TRUE)
  \/ DisplayEffect
  \/ FetchSettled(TRUE)
  \/ \E s \in AmountInputs : SetAmount(s)
  \/ handleSubmit
  \/ \E i \in 1..MaxAttempts, granted \in AccountLists : TipSignerSettled(i, granted)
  \/ \E i \in 1..MaxAttempts, sent \in BOOLEAN : TipSendSettled(i, sent)
  \/ \E i \in 1..MaxAttempts, mined \in BOOLEAN : TipWaitSettled(i, mined)
  \/ \E i \in 1..MaxAttempts, ok \in BOOLEAN : TipRefreshSettled(i, ok)

SpecBalance == InitBalance /\ [][NextBalance]_vars

(***************************************************************************)
(* SpecFlows: TipForm and WithdrawButton, each with its own useWallet      *)
(* session, in a browser whose wallet exposes the configured owner u1; the *)
(* connection checks succeed.  Every request to the wallet or the chain    *)
(* that is in flight eventually settles.                                   *)
(***************************************************************************)
FlowHooks == {"TipForm", "WithdrawButton"}

InitFlows ==
  /\ LedgerInit("u1")
  /\ contractAddress \in {Jar, Eoa}
  /\ contractOwner = Address("u1", "mixed")
  /\ ethereum = TRUE
  /\ walletAccounts = <<"u1">>
  /\ SessionInit
  /\ TipInit

\* an adapter call of a tip submission settles
TipSettles ==
  \/ \E i \in 1..MaxAttempts, granted \in {<<>>, <<"u1">>} : TipSignerSettled(i, granted)
  \/ \E i \in 1..MaxAttempts, sent \in BOOLEAN : TipSendSettled(i, sent)
  \/ \E i \in 1..MaxAttempts, mined \in BOOLEAN : TipWaitSettled(i, mined)
  \/ \E i \in 1..MaxAttempts, ok \in BOOLEAN : TipRefreshSettled(i, ok)

\* an adapter call of a withdrawal settles
WithdrawSettles ==
  \/ \E j \in 1..MaxAttempts, granted \in {<<>>, <<"u1">>} : WithdrawSignerSettled(j, granted)
  \/ \E j \in 1..MaxAttempts, ok \in BOOLEAN : WithdrawBalanceSettled(j, ok)
  \/ \E j \in 1..MaxAttempts, sent \in BOOLEAN : WithdrawSendSettled(j, sent)
  \/ \E j \in 1..MaxAttempts, mined \in BOOLEAN : WithdrawWaitSettled(j, mined)
  \/ \E j \in 1..MaxAttempts, ok \in BOOLEAN : WithdrawRefreshSettled(j, ok)

NextFlows ==
  \/ \E h \in FlowHooks : Mount(h)
  \/ \E h \in FlowHooks, k \in 1..MaxInFlight : CheckAccountsSettled(h, k, TRUE)
  \/ \E h \in FlowHooks, k \in 1..MaxInFlight : CheckBalanceSettled(h, k, TRUE)
  \/ \E s \in {<<"0">>, <<"1", ".", "0">>} : SetAmount(s)
  \/ handleSubmit
  \/ TipSettles
  \/ \E direct \in BOOLEAN : handleWithdraw(direct)
  \/ WithdrawSettles

SpecFlows == InitFlows /\ [][NextFlows]_vars /\ WF_vars(TipSettles) /\ WF_vars(WithdrawSettles)

(***************************************************************************)
(* SpecShared: the three components of the page that connect, tip and      *)
(* withdraw, each with the session its own call of useWallet gives it.     *)
(* The wallet exposes u1 throughout and emits no event.                    *)
(***************************************************************************)
SharedHooks == {"ConnectWallet", "TipForm", "WithdrawButton"}

InitShared ==
  /\ LedgerInit("u1")
  /\ contractAddress \in {Jar, Eoa}
  /\ contractOwner = Address("u1", "mixed")
  /\ ethereum = TRUE
  /\ walletAccounts = <<"u1">>
  /\ SessionInit
  /\ TipInit

NextShared ==
  \/ \E h \in SharedHooks : Mount(h)
  \/ \E h \in SharedHooks, k \in 1..MaxInFlight : CheckAccountsSettled(h, k, TRUE)
  \/ \E h \in SharedHooks, k \in 1..MaxInFlight : CheckBalanceSettled(h, k, TRUE)
  \/ DisconnectClick
  \/ SetAmount(<<"1", ".", "0">>)
  \/ handleSubmit
  \/ TipSettles
  \/ \E direct \in BOOLEAN : handleWithdraw(direct)
  \/ WithdrawSettles

SpecShared == InitShared /\ [][NextShared]_vars

(***************************************************************************)
(* SpecEvents: one session and the wallet's accountsChanged events, with   *)
(* every request of a connection check settling sooner or later, with      *)
(* either outcome.  eventState follows each event to its end.              *)
(***************************************************************************)
EventHook == "ConnectWallet"

\* the wallet emits accountsChanged; an event with accounts that reaches the
\* session's listener is pending from here on
AccountsEvent(accounts) ==
  /\ SwitchAccounts(accounts)
  /\ eventState' = IF accounts # <<>> /\ EventHook \in listeners THEN "pending" ELSE "idle"
  /\ UNCHANGED <<ledgerVars, configVars, withdrawVars, clockVars, displayVars, tipVars,
                 listeners, isClient, connects, connectVars>>

\* the eth_accounts request of a check settles
AccountsAnswer(k, ok) ==
  /\ AccountsAnswered(EventHook, k, ok)
  /\ eventState' = IF ~ok /\ eventState = "pending" THEN "failed" ELSE eventState
  /\ UNCHANGED <<ledgerVars, configVars, withdrawVars, clockVars, displayVars, tipVars,
                 walletAccounts, listeners, isClient, walletState, connects, connectVars>>

\* the getBalance request of a check settles; the event is over once the
\* session holds the wallet's active account
BalanceAnswer(k, ok) ==
  /\ BalanceAnswered(EventHook, k, ok)
  /\ eventState' = IF ~ok THEN (IF eventState = "pending" THEN "failed" ELSE eventState)
                   ELSE IF <<checks[EventHook][k].address>> = EthAccounts THEN "idle"
                   ELSE eventState
  /\ UNCHANGED <<ledgerVars, configVars, withdrawVars, clockVars, displayVars, tipVars,
                 walletAccounts, listeners, isClient, connects, connectVars>>

CheckSettles ==
  \E k \in 1..MaxInFlight, ok \in BOOLEAN : AccountsAnswer(k, ok) \/ BalanceAnswer(k, ok)

InitEvents ==
  /\ LedgerInit("u1")
  /\ contractAddress \in {Jar, Eoa}
  /\ contractOwner \in OwnerConfigs
  /\ WalletInit
  /\ SessionInit
  /\ TipInit

NextEvents ==
  \/ Mount(EventHook)
  \/ \E accounts \in AccountLists : AccountsEvent(accounts)
  \/ \E k \in 1..MaxInFlight, ok \in BOOLEAN : AccountsAnswer(k, ok)
  \/ \E k \in 1..MaxInFlight, ok \in BOOLEAN : BalanceAnswer(k, ok)

SpecEvents == InitEvents /\ [][NextEvents]_vars /\ WF_vars(CheckSettles)

(***************************************************************************)
(* SpecMount: two components that call useWallet, mounted and unmounted    *)
(* by React, and the wallet's accountsChanged events.                      *)
(***************************************************************************)
MountHooks == {"ConnectWallet", "BalanceDisplay"}

\* React unmounts the component: its state and the state of its useWallet
\* instance are discarded, what its calls in flight set is lost, and the
\* cleanup of the listener effect runs removeAllListeners for both events
Unmount(h) ==
  /\ isClient[h]
  /\ isClient' = [isClient EXCEPT ![h] = FALSE]
  /\ walletState' = [walletState EXCEPT ![h] = InitialWalletState]
  /\ checks' = [checks EXCEPT ![h] = <<>>]
  /\ listeners' = IF ethereum THEN {} ELSE listeners
  /\ IF h = "ConnectWallet"
       THEN /\ connects' = <<>>
            /\ connectError' = NoError
            /\ connectResult' = NoConnectResult
            /\ reconnect' = InitialWalletState
       ELSE UNCHANGED <<connects, connectVars>>
  /\ IF h = "BalanceDisplay"
       THEN /\ contractBalance' = <<"0">>
            /\ balanceLoading' = FALSE
            /\ fetches' = 0
            /\ seenDeps' = [isConnected |-> FALSE, isClient |-> FALSE, userBalance |-> <<"0">>]
       ELSE UNCHANGED displayVars
  /\ IF h = "TipForm"
       THEN /\ amount' = <<>> /\ message' = "" /\ isLoading' = FALSE /\ error' = NoError
            /\ attempts' = <<>> /\ outcome' = NoOutcome
       ELSE UNCHANGED formVars
  /\ IF h = "WithdrawButton"
       THEN /\ withdrawLoading' = FALSE /\ withdrawError' = NoError
            /\ withdraws' = <<>> /\ withdrawOutcome' = NoWithdrawOutcome
       ELSE UNCHANGED withdrawVars
  /\ UNCHANGED <<ledgerVars, configVars, clockVars, eventState, noteVars, walletAccounts>>

InitMount ==
  /\ LedgerInit("u1")
  /\ contractAddress = Jar
  /\ contractOwner = Address("u1", "lower")
  /\ WalletInit
  /\ SessionInit
  /\ TipInit

NextMount ==
  \/ \E h \in MountHooks : Mount(h)
  \/ \E h \in MountHooks : Unmount(h)
  \/ \E accounts \in AccountLists : AccountsChanged(accounts)
  \/ \E h \in MountHooks, k \in 1..MaxInFlight, ok \in BOOLEAN : CheckAccountsSettled(h, k, ok)
  \/ \E h \in MountHooks, k \in 1..MaxInFlight, ok \in BOOLEAN : CheckBalanceSettled(h, k, ok)
  \/ DisplayEffect
  \/ \E ok \in BOOLEAN : FetchSettled(ok)

SpecMount == InitMount /\ [][NextMount]_vars

(***************************************************************************)
(* SpecNotify: Home's notification slot, the Notification component with   *)
(* its timeout, and the clock.  TipForm and WithdrawButton appear as the   *)
(* callbacks they invoke.                                                  *)
(***************************************************************************)
\* the TipTransaction records TipForm passes to onTipSent
TipTransactions ==
  [amount : {<<"1", ".", "0">>}, message : {""}, hash : {1},
   status : {"pending", "success", "error"}]

\* onClose as Home passes it, and the effect's cleanup on the re-render:
\* the notification is hidden and no timeout is pending
onClose ==
  /\ notification' = [notification EXCEPT !.isVisible = FALSE]
  /\ timer' = 0
  /\ UNCHANGED shownAt

\* TipForm calls onTipSent(transaction)
TipSent(transaction) ==
  /\ Notify(handleTipSent(transaction))
  /\ cleared' = (IF notification.isVisible THEN timer ELSE 0)
  /\ UNCHANGED <<ledgerVars, configVars, withdrawVars, displayVars, eventState, now, sessionVars, formVars>>

\* WithdrawButton calls onWithdraw(success, txHash)
Withdrawn(success, txHash) ==
  /\ Notify(onWithdraw(success, txHash))
  /\ cleared' = (IF notification.isVisible THEN timer ELSE 0)
  /\ UNCHANGED <<ledgerVars, configVars, withdrawVars, displayVars, eventState, now, sessionVars, formVars>>

\* a click on the close button, which is rendered while isVisible
CloseClick ==
  /\ notification.isVisible
  /\ onClose
  /\ UNCHANGED <<ledgerVars, restVars, sessionVars, formVars>>

\* the pending timeout expires and runs onClose
TimerFires ==
  /\ timer # 0
  /\ now = timer
  /\ onClose
  /\ UNCHANGED <<ledgerVars, restVars, sessionVars, formVars>>

\* a second passes; a timeout that is due runs before the clock moves on
Tick ==
  /\ now < MaxTime
  /\ timer = 0 \/ now < timer
  /\ now' = now + 1
  /\ UNCHANGED <<ledgerVars, configVars, withdrawVars, displayVars, eventState, cleared, sessionVars, tipVars>>

InitNotify ==
  /\ LedgerInit("u1")
  /\ contractAddress = Jar
  /\ contractOwner = Address("u1", "lower")
  /\ WalletInit
  /\ SessionInit
  /\ TipInit

NextNotify ==
  \/ \E transaction \in TipTransactions : TipSent(transaction)
  \/ \E success \in BOOLEAN : Withdrawn(success, IF success THEN 1 ELSE 0)
  \/ CloseClick
  \/ TimerFires
  \/ Tick

SpecNotify == InitNotify /\ [][NextNotify]_vars

(***************************************************************************)
(* The ledger contract.                                                    *)
(***************************************************************************)
\* C4: the balance of the ledger decreases only in a step that is a
\* successful withdraw() whose caller is the stored owner; a withdraw() by
\* any other caller fails and leaves the balance unchanged.
C4_OnlyOwnerReduces ==
  [][/\ chainBalance'[Jar] < chainBalance[Jar] =>
          lastCall'.fn = "withdraw" /\ lastCall'.sender = owner /\ lastCall'.ok
     /\ (lastCall'.fn = "withdraw" /\ lastCall'.sender # owner) =>
          ~lastCall'.ok /\ chainBalance'[Jar] = chainBalance[Jar]]_vars

\* the owner has withdrawn a positive balance
C4_Witness ==
  /\ lastCall.fn = "withdraw" /\ lastCall.sender = owner /\ lastCall.ok
  /\ lastCall.before > 0 /\ chainBalance[Jar] < lastCall.before

\* C5: a call of tip with attached value v > 0 succeeds and increases the
\* balance of the ledger by exactly v; a call of tip with value 0 fails and
\* leaves the balance of the ledger and the owner unchanged.
C5_DepositExact ==
  [][lastCall'.fn = "tip" =>
       IF lastCall'.value > 0
         THEN lastCall'.ok /\ chainBalance'[Jar] = chainBalance[Jar] + lastCall'.value
         ELSE ~lastCall'.ok /\ chainBalance'[Jar] = chainBalance[Jar] /\ owner' = owner]_vars

\* a positive deposit was accepted on top of an earlier one
C5_Witness ==
  /\ lastCall.fn = "tip" /\ lastCall.ok /\ lastCall.value > 0 /\ lastCall.before > 0
  /\ chainBalance[Jar] = lastCall.before + lastCall.value

\* C6: when a deposit of v > 0 is followed by a withdraw() of the owner, the
\* withdraw leaves the balance of the ledger at 0 and pays the owner the
\* whole balance held when it was called, which is v when the ledger was
\* empty before the deposit.
C6_DepositThenWithdraw ==
  [][(/\ lastCall.fn = "tip" /\ lastCall.ok
      /\ lastCall'.fn = "withdraw" /\ lastCall'.sender = owner) =>
        /\ lastCall'.ok
        /\ chainBalance'[Jar] = 0
        /\ lastCall'.paid = chainBalance[Jar]
        /\ chainBalance'[owner] = chainBalance[owner] + chainBalance[Jar]
        /\ lastCall.before = 0 => lastCall'.paid = lastCall.value]_vars

\* the owner has swept a balance made of more than one deposit
C6_Witness ==
  /\ lastCall.fn = "withdraw" /\ lastCall.ok /\ lastCall.paid = WeiPerEther + WeiPerEther \div 2
  /\ chainBalance[Jar] = 0

(***************************************************************************)
(* The tip form.                                                           *)
(***************************************************************************)
\* an amount that is empty, not a number, or a number <= 0
BadAmount(s) == s = <<>> \/ parseFloat(s).nan \/ LeqZero(parseFloat(s))

\* C1: a submission whose amount is empty, non-numeric or <= 0 is rejected by
\* validation: no invocation of handleSubmit with such an amount gets past
\* validation to the wallet (getSigner, sendTransaction), and no
\* TipTransaction record is emitted for such an amount.
C1_BadAmountRejected ==
  /\ \A i \in 1..Len(attempts) : ~BadAmount(attempts[i].amount)
  /\ \A j \in 1..Len(outcome.emitted) : ~BadAmount(outcome.emitted[j].amount)

\* C3: every transaction the tip flow hands to the wallet for the ledger
\* contract calls the contract's tip function and is accepted, the balance
\* of the ledger growing by exactly the value of the transaction.
C3_TipIsLedgerDeposit ==
  \A i \in 1..Len(attempts) :
    (attempts[i].pc = "send" /\ attempts[i].tx.to = Jar) =>
      /\ Selected(attempts[i].tx) = "tip"
      /\ Execute(chainBalance, attempts[i].tx).ok
      /\ Execute(chainBalance, attempts[i].tx).bal[Jar] = chainBalance[Jar] + attempts[i].tx.value

\* C8: the step that ends an invocation of handleSubmit with success is the
\* one in which its updateBalance settles; the records emitted for the
\* invocation are then exactly pending, success with the amount, message and
\* hash of the one transaction; the session balance is the balance fetched
\* for the submitting address (unless the balance request failed, which
\* updateBalance swallows); both form fields are reset to empty.
C8_ConfirmedTip ==
  [][(Len(attempts') < Len(attempts) /\ outcome'.result = "success") =>
       \E i \in 1..Len(attempts) :
         LET a == attempts[i]
             record(status) == [amount |-> a.amount, message |-> a.message,
                                hash |-> a.hash, status |-> status]
         IN  /\ attempts' = Remove(attempts, i)
             /\ a.pc = "refresh"
             /\ a.hash # 0
             /\ ~BadAmount(a.amount)
             /\ outcome'.emitted = <<record("pending"), record("success")>>
             /\ outcome'.refreshed \in {"ok", "failed"}
             /\ outcome'.refreshed = "ok" =>
                  walletState'["TipForm"].balance = formatEther(chainBalance[a.address.id])
             /\ amount' = <<>>
             /\ message' = ""]_vars

\* a tip of 1.0 with message "gg" was confirmed: the balance shown is the
\* sender's new balance and the form is empty
C8_Witness ==
  /\ outcome.result = "success" /\ outcome.refreshed = "ok"
  /\ Len(outcome.emitted) = 2 /\ outcome.emitted[2].message = "gg"
  /\ outcome.emitted[2].amount = <<"1", ".", "0">>
  /\ lastCall.fn = "transfer" /\ lastCall.ok /\ lastCall.value = WeiPerEther
  /\ walletState["TipForm"].balance = formatEther(InitFunds - WeiPerEther)
  /\ amount = <<>> /\ message = ""

\* C9: the step that ends an invocation of handleSubmit with a failure emits
\* a record with status error carrying the submitted amount and message,
\* sets the local error, and leaves both form fields as they are.
C9_FailureKeepsForm ==
  [][(Len(attempts') < Len(attempts) /\ outcome'.result = "error") =>
       \E i \in 1..Len(attempts) :
         LET a == attempts[i]
         IN  /\ attempts' = Remove(attempts, i)
             /\ outcome'.emitted = Append(a.emitted,
                  [amount |-> a.amount, message |-> a.message, hash |-> 0, status |-> "error"])
             /\ error' # NoError
             /\ amount' = amount
             /\ message' = message]_vars

\* the confirmation of a broadcast tip failed: pending then error were
\* emitted, the error is shown and the form still holds the user's entry
C9_Witness ==
  /\ outcome.result = "error" /\ Len(outcome.emitted) = 2
  /\ outcome.emitted[1].status = "pending" /\ outcome.emitted[2].status = "error"
  /\ error = ErrMessage
  /\ amount = outcome.emitted[2].amount /\ message = "gg" /\ outcome.emitted[2].message = "gg"

\* C10: at most one invocation of handleSubmit is in flight, the loading flag
\* is set as long as one is, and no invocation starts while the flag is set.
C10_OneTransferInFlight ==
  /\ [](Len(attempts) <= 1 /\ (attempts # <<>> => isLoading))
  /\ [][Len(attempts') > Len(attempts) => ~isLoading]_vars

\* a tip is awaiting confirmation while the form is rendered with an amount
\* typed in: the submit button is disabled
C10_Witness ==
  /\ Len(attempts) = 1 /\ attempts[1].pc = "wait"
  /\ FormRendered /\ amount # <<>> /\ isLoading /\ ~SubmitEnabled

(***************************************************************************)
(* The withdrawal.                                                         *)
(***************************************************************************)
\* C11: an invocation of handleWithdraw while the session is connected with
\* an address other than the configured owner sets the authorization error
\* and does nothing else: no invocation goes in flight (so no wallet call is
\* made, no transaction sent), the loading flag, the session, the
\* notification and the ledger are unchanged.
C11_NonOwnerRefused ==
  [][((\E direct \in BOOLEAN : handleWithdraw(direct))
        /\ walletState["WithdrawButton"].isConnected /\ ~isOwner) =>
       /\ withdrawError' = "Only the contract owner can withdraw funds"
       /\ withdrawOutcome'.result = "not owner"
       /\ UNCHANGED <<withdraws, withdrawLoading, ledgerVars, sessionVars, noteVars>>]_vars

\* the handler refused an address connected to a page whose contract holds
\* tips, with nothing in flight
C11_Witness ==
  /\ withdrawOutcome.result = "not owner"
  /\ withdrawError = "Only the contract owner can withdraw funds"
  /\ walletState["WithdrawButton"].isConnected /\ ~isOwner
  /\ withdraws = <<>> /\ chainBalance[Jar] > 0

\* C12: when the balance the handler reads for the contract is 0, the
\* invocation ends in that step: it never reaches sendTransaction, the local
\* error is the nothing-to-withdraw message, the loading flag is false, and
\* neither the ledger nor the notification changes.
C12_NothingToWithdraw ==
  [][((\E j \in 1..Len(withdraws) : WithdrawBalanceSettled(j, TRUE))
        /\ chainBalance[contractAddress] = 0) =>
       /\ Len(withdraws') = Len(withdraws) - 1
       /\ \A j \in 1..Len(withdraws') : withdraws'[j].pc # "send"
       /\ withdrawError' = "No funds available to withdraw"
       /\ ~withdrawLoading'
       /\ UNCHANGED <<ledgerVars, noteVars>>]_vars

\* the owner's invocation ended on an empty contract: no transaction was
\* ever executed
C12_Witness ==
  /\ withdrawOutcome.result = "no funds"
  /\ withdrawError = "No funds available to withdraw"
  /\ isOwner /\ ~withdrawLoading /\ withdraws = <<>>
  /\ chainBalance[Jar] = 0 /\ lastCall = NoCall

\* C13: the step that ends an invocation of handleWithdraw with success is
\* the one in which its updateBalance settles, and it reports success with
\* the hash of the transaction it sent (the session balance is the balance
\* fetched for the captured address unless the request failed, which
\* updateBalance swallows); the step that ends one with a failure reports
\* failure without a hash and leaves the session of WithdrawButton as it is.
C13_WithdrawReported ==
  /\ [][(Len(withdraws') < Len(withdraws) /\ withdrawOutcome'.result = "success") =>
          \E j \in 1..Len(withdraws) :
            LET a == withdraws[j]
            IN  /\ withdraws' = Remove(withdraws, j)
                /\ a.pc = "refresh"
                /\ a.hash # 0
                /\ withdrawOutcome'.reported = <<[success |-> TRUE, hash |-> a.hash]>>
                /\ withdrawOutcome'.refreshed \in {"ok", "failed"}
                /\ withdrawOutcome'.refreshed = "ok" =>
                     walletState'["WithdrawButton"].balance =
                       formatEther(chainBalance[a.address.id])
                /\ notification' = onWithdraw(TRUE, a.hash)]_vars
  /\ [][(Len(withdraws') < Len(withdraws) /\ withdrawOutcome'.result = "error") =>
          /\ withdrawOutcome'.reported = <<[success |-> FALSE, hash |-> 0]>>
          /\ notification' = onWithdraw(FALSE, 0)
          /\ withdrawError' # NoError
          /\ walletState'["WithdrawButton"] = walletState["WithdrawButton"]]_vars

\* the owner's withdrawal of a tip was confirmed: the session shows the
\* owner's balance with the tip added
C13_Witness ==
  /\ withdrawOutcome.result = "success" /\ withdrawOutcome.refreshed = "ok"
  /\ lastCall.fn = "withdraw" /\ lastCall.ok /\ lastCall.paid = WeiPerEther
  /\ walletState["WithdrawButton"].balance = formatEther(InitFunds + WeiPerEther)
  /\ notification.type = "success" /\ notification.isVisible

(***************************************************************************)
(* The sessions.                                                           *)
(***************************************************************************)
\* C2: for the address the WithdrawButton session is connected with,
\* withdrawal is enabled exactly when the address is the owner stored in the
\* ledger contract.
C2_EnabledIffLedgerOwner ==
  walletState["WithdrawButton"].isConnected =>
    (isOwner <=> walletState["WithdrawButton"].address.id = owner)

\* C7: a step in which the wallet's exposed accounts become empty (the
\* wallet emits accountsChanged with an empty list) leaves every session in
\* the disconnected shape.
C7_EmptyAccountsDisconnect ==
  [][(walletAccounts' # walletAccounts /\ walletAccounts' = <<>>) =>
       \A h \in Hooks : walletState'[h] =
         [address |-> NullAddress, isConnected |-> FALSE, balance |-> <<"0">>,
          isLoading |-> FALSE]]_vars

\* the exposed accounts became empty while a connectWallet and a
\* checkIfWalletIsConnected were awaiting a balance: the session is in the
\* disconnected shape
C7_Witness ==
  /\ walletAccounts = <<>>
  /\ \E k \in 1..Len(connects) : connects[k].stage = "balance"
  /\ \E k \in 1..Len(checks["ConnectWallet"]) : checks["ConnectWallet"][k].stage = "balance"
  /\ \A h \in SessionHooks : h \in listeners /\ walletState[h] = InitialWalletState

(***************************************************************************)
(* connect, the silent check, disconnect.                                  *)
(***************************************************************************)
\* C14: connectWallet takes the first account the wallet returns, and the
\* step in which its balance request succeeds sets the session to that
\* address, connected, the balance fetched for it, not loading, and
\* returns the address.
C14_ConnectSetsSession ==
  /\ [][\A k \in 1..Len(connects), granted \in AccountLists \ {<<>>} :
          ConnectRequestSettled(k, granted) =>
            /\ walletAccounts' = granted
            /\ connects'[k].address = Address(granted[1], "lower")]_vars
  /\ [][\A k \in 1..Len(connects) :
          ConnectBalanceSettled(k, TRUE) =>
            /\ walletState'["ConnectWallet"] =
                 [address |-> connects[k].address, isConnected |-> TRUE,
                  balance |-> formatEther(chainBalance[connects[k].address.id]),
                  isLoading |-> FALSE]
            /\ connectResult'.result = "ok"
            /\ connectResult'.address = connects[k].address]_vars

\* the user granted u2 at the prompt and connectWallet completed
C14_Witness ==
  /\ connectResult.result = "ok" /\ connectResult.prompted
  /\ connectResult.address = Address("u2", "lower")
  /\ walletAccounts = <<"u2">>
  /\ walletState["ConnectWallet"] =
       [address |-> Address("u2", "lower"), isConnected |-> TRUE,
        balance |-> formatEther(InitFunds), isLoading |-> FALSE]

\* a step is a failure of connectWallet: its guard throws, or a call in
\* flight ends in the catch block
ConnectFails(k) ==
  /\ connectResult'.result = "error"
  /\ \/ k = 0 /\ ~ethereum /\ ConnectClick
     \/ k \in 1..Len(connects) /\ connects' = Remove(connects, k)

\* C15 as stated: when connectWallet fails the error reaches the caller, the
\* loading flag is false, and address, connected and balance are what they
\* were when connectWallet was called.
C15_FailureRestoresSession ==
  [][\A k \in 0..Len(connects) :
       ConnectFails(k) =>
         /\ connectError' # NoError
         /\ walletState'["ConnectWallet"] =
              [(IF k = 0 THEN walletState["ConnectWallet"] ELSE connects[k].before)
                 EXCEPT !.isLoading = FALSE]]_vars

\* C15 amended: when connectWallet fails the error reaches the caller, the
\* loading flag is false, and the failing step itself leaves address,
\* connected and balance as they are (they differ from their values at the
\* call only by what a connection check did in between).
C15_FailureKeepsSession ==
  [][\A k \in 0..Len(connects) :
       ConnectFails(k) =>
         /\ connectError' # NoError
         /\ walletState'["ConnectWallet"] =
              [walletState["ConnectWallet"] EXCEPT !.isLoading = FALSE]]_vars

\* the user granted an account at the prompt, then the balance request of
\* connectWallet failed
C15_Witness ==
  /\ connectResult.result = "error" /\ connectResult.prompted
  /\ connectError = "could not fetch balance"
  /\ walletAccounts # <<>>
  /\ ~walletState["ConnectWallet"].isLoading

\* C16: a call of checkIfWalletIsConnected that finds no adapter, gets no
\* account, or has one of its two requests fail ends without changing any
\* session or any error shown: it only leaves the calls in flight.
C16_CheckSilent ==
  /\ [][\A h \in Hooks :
          (Mount(h) /\ ~ethereum) =>
            UNCHANGED <<walletState, checks, connectVars, error, withdrawError>>]_vars
  /\ [][\A h \in Hooks, k \in 1..MaxInFlight :
          (\/ CheckAccountsSettled(h, k, FALSE)
           \/ CheckAccountsSettled(h, k, TRUE) /\ walletAccounts = <<>>
           \/ CheckBalanceSettled(h, k, FALSE)) =>
            /\ checks' = [checks EXCEPT ![h] = Remove(@, k)]
            /\ UNCHANGED <<walletState, walletAccounts, connects, connectVars, error,
                           withdrawError, noteVars>>]_vars

\* no connectWallet was called, the wallet switched from u1 to u2 and the
\* check that followed failed: the session still shows u1
C16_Witness ==
  /\ connectResult = NoConnectResult /\ connects = <<>>
  /\ "ConnectWallet" \in listeners /\ checks["ConnectWallet"] = <<>>
  /\ walletAccounts = <<"u2">>
  /\ walletState["ConnectWallet"].isConnected
  /\ walletState["ConnectWallet"].address = Address("u1", "lower")

\* C17: a click on disconnect sets the session of ConnectWallet to the
\* disconnected shape and changes nothing else: no request goes to the
\* wallet, whose exposed accounts stay as they are.
C17_DisconnectLocal ==
  [][DisconnectClick =>
       /\ walletState' = [walletState EXCEPT !["ConnectWallet"] =
            [address |-> NullAddress, isConnected |-> FALSE, balance |-> <<"0">>,
             isLoading |-> FALSE]]
       /\ UNCHANGED <<walletAccounts, checks, connects, listeners, ledgerVars>>]_vars

\* the session was disconnected by a click while the wallet still exposes
\* its account
C17_Witness ==
  /\ reconnect.isConnected /\ reconnect.address = Address("u1", "lower")
  /\ walletState["ConnectWallet"] = InitialWalletState
  /\ walletAccounts = <<"u1">>
  /\ connects = <<>>

C19_OnlyConnectPrompts ==
  [][\A i \in 1..Len(attempts), granted \in AccountLists \ {<<>>} :
       TipSignerSettled(i, granted) => ~Prompts(SignerMethod)]_vars

(***************************************************************************)
(* The notification's timeout.                                             *)
(***************************************************************************)
\* C20: while a notification is visible the pending timeout is the one set
\* at its own creation, 5 seconds after it, and that time has not passed;
\* the timeout hides a notification only at 5 seconds after the creation of
\* the notification on display; a callback that shows a notification, over
\* a visible one or not, sets the timeout to 5 seconds from now.
C20_OwnFullWindow ==
  /\ [](notification.isVisible =>
          /\ timer = shownAt + AutoClose
          /\ now <= shownAt + AutoClose)
  /\ [][TimerFires => notification.isVisible /\ now = shownAt + AutoClose]_vars
  /\ [][(notification'.isVisible /\ notification' # notification) =>
          /\ shownAt' = now
          /\ timer' = now + AutoClose]_vars

\* a notification replaced a visible one, stayed on display past the time
\* the replaced one's timeout was set for, and was hidden by its own
\* timeout 5 seconds after it was created
C20_Witness ==
  /\ ~notification.isVisible /\ timer = 0
  /\ cleared # 0 /\ cleared < now
  /\ shownAt > 0 /\ now = shownAt + AutoClose

\* C21: the notification is one slot, so at most one is on display, and a
\* callback that shows a notification, over a visible one or not, leaves
\* on display exactly the severity and the text it was called for.
C21_ShowReplaces ==
  /\ [][\A transaction \in TipTransactions :
          TipSent(transaction) =>
            /\ notification'.isVisible
            /\ notification'.type =
                 (IF transaction.status = "pending" THEN "info" ELSE transaction.status)
            /\ notification'.message.text =
                 (CASE transaction.status = "pending" -> "Tip is being processed"
                    [] transaction.status = "success" -> "Successfully sent tip"
                    [] transaction.status = "error" -> "Failed to send tip. Please try again.")]_vars
  /\ [][\A success \in BOOLEAN :
          Withdrawn(success, IF success THEN 1 ELSE 0) =>
            /\ notification'.isVisible
            /\ notification'.type = (IF success THEN "success" ELSE "error")
            /\ notification'.message.text =
                 (IF success THEN "Successfully withdrew all tips!"
                  ELSE "Failed to withdraw funds. Please try again.")]_vars

\* the error notification of a failed withdrawal is on display in place of
\* a notification that was visible when it was shown
C21_Witness ==
  /\ notification.isVisible /\ cleared # 0 /\ shownAt > 0
  /\ notification.type = "error"
  /\ notification.message.text = "Failed to withdraw funds. Please try again."

(***************************************************************************)
(* The records a tip submission emits.                                     *)
(***************************************************************************)
\* the statuses of the records of a sequence, in order
Statuses(records) == [k \in 1..Len(records) |-> records[k].status]

\* C22: the records one invocation of handleSubmit passes to onTipSent are
\* none, error, pending then success, or pending then error: an invocation
\* in flight has emitted nothing before its transaction is broadcast and
\* pending alone after, and an invocation that ended emitted one of the
\* four sequences, success only after the confirmation of its transaction.
C22_StatusSequences ==
  /\ \A i \in 1..Len(attempts) :
       Statuses(attempts[i].emitted) =
         (IF attempts[i].pc \in {"signer", "send"} THEN <<>> ELSE <<"pending">>)
  /\ \/ outcome.result \in {"none", "invalid"} /\ outcome.emitted = <<>>
     \/ outcome.result = "error"
          /\ Statuses(outcome.emitted) \in {<<"error">>, <<"pending", "error">>}
     \/ outcome.result = "success"
          /\ Statuses(outcome.emitted) = <<"pending", "success">>
          /\ outcome.emitted[1].hash = outcome.emitted[2].hash

\* a transaction was broadcast and its confirmation failed: the submission
\* emitted pending, then error
C22_Witness ==
  /\ outcome.result = "error"
  /\ Statuses(outcome.emitted) = <<"pending", "error">>
  /\ ~isLoading /\ attempts = <<>>

(***************************************************************************)
(* The balances on display.                                                *)
(***************************************************************************)
\* C23: once a tip is confirmed and BalanceDisplay is at rest (connected,
\* its effect run, none of its requests in flight), the balances it shows
\* are the balances on the chain.
C23_DisplayedBalancesCurrent ==
  (/\ outcome.result = "success" /\ attempts = <<>>
   /\ isClient["BalanceDisplay"] /\ walletState["BalanceDisplay"].isConnected
   /\ checks["BalanceDisplay"] = <<>> /\ fetches = 0 /\ seenDeps = DisplayDeps) =>
    /\ contractBalance = formatEther(chainBalance[contractAddress])
    /\ walletState["BalanceDisplay"].balance =
         formatEther(GetBalance(walletState["BalanceDisplay"].address))

(***************************************************************************)
(* Termination of the flows.                                               *)
(***************************************************************************)
\* C24: a tip submission and a withdrawal that set their loading flag
\* eventually clear it; the flag is set exactly while an invocation is in
\* flight; and every invocation that ends in a failure, at validation or
\* in its catch block, ends inside the handler with the component's error
\* message set and the flag clear.
C24_FlowsEnd ==
  /\ isLoading ~> ~isLoading
  /\ withdrawLoading ~> ~withdrawLoading
  /\ [](isLoading <=> attempts # <<>>)
  /\ [](withdrawLoading <=> withdraws # <<>>)
  /\ [][(outcome' # outcome /\ outcome'.result \in {"invalid", "error"}) =>
          error' # NoError /\ ~isLoading']_vars
  /\ [][(withdrawOutcome' # withdrawOutcome
           /\ withdrawOutcome'.result \in {"not connected", "not owner", "no funds", "error"}) =>
          withdrawError' # NoError /\ ~withdrawLoading']_vars

\* a tip submission ended in its catch block and a withdrawal ended on an
\* empty contract: both loading flags are clear, both errors are shown
C24_Witness ==
  /\ outcome.result = "error" /\ error = ErrMessage /\ ~isLoading
  /\ withdrawOutcome.result = "no funds" /\ withdrawError # NoError /\ ~withdrawLoading

(***************************************************************************)
(* The wallet's event subscriptions.                                       *)
(***************************************************************************)
\* C25: with a wallet installed, the accountsChanged and chainChanged
\* handlers of a useWallet instance are registered exactly while its
\* component is mounted; the teardown of one instance leaves the handlers
\* of the instances still mounted in place.
C25_ListenersPerSession ==
  \A h \in Hooks : h \in listeners <=> (isClient[h] /\ ethereum)

\* the session holds account u: its address, its balance on the chain,
\* connected
Holds(u) == walletState[EventHook] = ConnectedState(Address(u, "lower"))

C27_DisconnectReachesFlows ==
  /\ [](reconnect.isConnected =>
          ~walletState["TipForm"].isConnected /\ ~walletState["WithdrawButton"].isConnected)
  /\ [][(reconnect.isConnected /\ handleSubmit) => attempts' = attempts]_vars
  /\ [][(reconnect.isConnected /\ \E direct \in BOOLEAN : handleWithdraw(direct)) =>
          withdraws' = withdraws]_vars

\* C28: after an accountsChanged event with no accounts the session stays
\* disconnected, with no address and balance '0', for as long as the wallet
\* exposes no account: no connection check that was in flight reconnects it
C28_StaysDisconnected ==
  walletAccounts = <<>> =>
    /\ ~walletState[EventHook].isConnected
    /\ walletState[EventHook].address = NullAddress
    /\ walletState[EventHook].balance = <<"0">>

\* C29: in every session connected holds exactly when the address is set, a
\* disconnected session has balance '0', and whenever the balance of a
\* connected session changes it becomes the balance of the session's current
\* address
C29_SessionConsistent ==
  /\ [](\A h \in Hooks :
          /\ walletState[h].isConnected <=> walletState[h].address # NullAddress
          /\ ~walletState[h].isConnected => walletState[h].balance = <<"0">>)
  /\ [][\A h \in Hooks :
          (walletState'[h].isConnected /\ walletState'[h].balance # walletState[h].balance) =>
            walletState'[h].balance = formatEther(chainBalance'[walletState'[h].address.id])]_vars

\* C30: while a connectWallet call is pending the session's loading flag is
\* set, so the connect control is disabled and no second call can start
C30_LoadingWhilePending ==
  connects # <<>> =>
    /\ walletState["ConnectWallet"].isLoading
    /\ ~ConnectEnabled
    /\ Len(connects) = 1

====
